---- MODULE Spec2Model ----
(***************************************************************************)
(* Model of the STIX pattern AST builder (src/src/parser.rs, ast.rs).      *)
(*                                                                         *)
(* The builder is a pure function of a concrete parse tree (pest Pair).    *)
(* A Pair is modelled as a record [rule, inner, str]: its rule name, the   *)
(* sequence of its child pairs and the text it spans (kept for leaves).    *)
(* Texts are sequences of one-character strings, numbers are kept as       *)
(* canonical decimal numerals (sequences of digits) so that the 32 and 64  *)
(* bit limits of the code keep their real width.                           *)
(***************************************************************************)
EXTENDS Integers, Sequences, FiniteSets, TLC

VARIABLES kind, input, out, pc

vars == <<kind, input, out, pc>>

---------------------------------------------------------------------------
(* Bounds of the model *)

MaxLen == 4        \* longest string body given to unescape_string
MaxSteps == 2      \* most property steps in one path
MaxTerms == 3      \* most comparisons folded at one level
MaxObs == 3        \* most observations folded in one expression
MaxQual == 2       \* most qualifier clauses after one observation
MaxNest == 3       \* deepest nesting of parentheses in one pattern

---------------------------------------------------------------------------
(* Characters and generic helpers *)

BS == "\\"
QT == "'"
LF == "<LF>"
CR == "<CR>"
TAB == "<TAB>"

Alphabet == {BS, QT, "n", "r", "t", "a", "b"}

Strings(n) == UNION {[1..k -> Alphabet] : k \in 0..n}

None == <<>>
Some(x) == <<x>>
IsSome(o) == Len(o) = 1
Unwrap(o) == o[1]

Ok(v) == [ok |-> TRUE, val |-> v]
Err(e) == [ok |-> FALSE, err |-> e]

\* the ? operator: go on with the value, or return the error as it is
Try(r, Continue(_)) == IF r.ok THEN Continue(r.val) ELSE r

MissingElement(what) == [error |-> "MissingElement", what |-> what]
UnexpectedRule(rule) == [error |-> "UnexpectedRule", rule |-> rule]
InvalidTimestamp(s) == [error |-> "InvalidTimestamp", text |-> s]
InvalidInt(why) == [error |-> "InvalidInt", why |-> why]
InvalidFloat(why) == [error |-> "InvalidFloat", why |-> why]

---------------------------------------------------------------------------
(* unescape_string: one left-to-right pass over the characters *)

\* The character after a backslash (None at the end of the text) and what
\* the pass pushes for the two of them.
unescape_pair_drop(next) ==
    IF ~IsSome(next) THEN <<BS>>
    ELSE LET c == Unwrap(next)
         IN CASE c = "n" -> <<LF>>
              [] c = "r" -> <<CR>>
              [] c = "t" -> <<TAB>>
              [] c \in {BS, QT} -> <<c>>
              [] OTHER -> <<c>>

unescape_pair_keepquote(next) ==
    IF ~IsSome(next) THEN <<BS>>
    ELSE LET c == Unwrap(next)
         IN CASE c = "n" -> <<LF>>
              [] c = "r" -> <<CR>>
              [] c = "t" -> <<TAB>>
              [] c = BS -> <<c>>
              [] OTHER -> <<BS, c>>

unescape_pair(next) ==
    IF ~IsSome(next) THEN <<BS>>
    ELSE LET c == Unwrap(next)
         IN CASE c = "n" -> <<LF>>
              [] c = "r" -> <<CR>>
              [] c = "t" -> <<TAB>>
              [] c \in {BS, QT} -> <<c>>
              [] OTHER -> <<BS, c>>

\* chars.next() at position i of s
char_at(s, i) == IF i <= Len(s) THEN Some(s[i]) ELSE None

RECURSIVE unescape_from(_, _)
unescape_from(s, i) ==
    IF i > Len(s) THEN <<>>
    ELSE IF s[i] = BS
         THEN unescape_pair(char_at(s, i + 1)) \o unescape_from(s, i + 2)
         ELSE <<s[i]>> \o unescape_from(s, i + 1)

unescape_string(s) == unescape_from(s, 1)

---------------------------------------------------------------------------
(* Decimal texts and str::parse for the unsigned 32 bit and signed 64 bit   *)
(* integers.  A parsed number is its canonical numeral (no leading zeros).  *)

Digits == {"0", "1", "2", "3", "4", "5", "6", "7", "8", "9"}

DigitVal(c) ==
    CASE c = "0" -> 0 [] c = "1" -> 1 [] c = "2" -> 2 [] c = "3" -> 3
      [] c = "4" -> 4 [] c = "5" -> 5 [] c = "6" -> 6 [] c = "7" -> 7
      [] c = "8" -> 8 [] c = "9" -> 9

RECURSIVE Canon(_)
Canon(ds) ==
    IF Len(ds) > 1 /\ ds[1] = "0" THEN Canon(Tail(ds)) ELSE ds

\* a <= b for canonical numerals
RECURSIVE LexLeq(_, _)
LexLeq(a, b) ==
    IF Len(a) = 0 THEN TRUE
    ELSE IF DigitVal(a[1]) # DigitVal(b[1]) THEN DigitVal(a[1]) < DigitVal(b[1])
    ELSE LexLeq(Tail(a), Tail(b))

NumLeq(a, b) == Len(a) < Len(b) \/ (Len(a) = Len(b) /\ LexLeq(a, b))

U32Max == <<"4", "2", "9", "4", "9", "6", "7", "2", "9", "5">>
I64Max == <<"9", "2", "2", "3", "3", "7", "2", "0", "3", "6", "8", "5", "4",
            "7", "7", "5", "8", "0", "7">>
I64MinAbs == <<"9", "2", "2", "3", "3", "7", "2", "0", "3", "6", "8", "5", "4",
               "7", "7", "5", "8", "0", "8">>

\* str::parse::<u32>() as a wrapping conversion would be: keep the low digits
parse_u32_truncating(s) ==
    LET body == IF Len(s) > 1 /\ s[1] = "+" THEN Tail(s) ELSE s
    IN IF Len(body) = 0 THEN Err(InvalidInt("Empty"))
       ELSE IF \E i \in 1..Len(body) : body[i] \notin Digits
            THEN Err(InvalidInt("InvalidDigit"))
       ELSE IF NumLeq(Canon(body), U32Max) THEN Ok(Canon(body))
       ELSE Ok(Canon(SubSeq(Canon(body), 2, Len(Canon(body)))))

parse_u32(s) ==
    LET body == IF Len(s) > 1 /\ s[1] = "+" THEN Tail(s) ELSE s
    IN IF Len(body) = 0 THEN Err(InvalidInt("Empty"))
       ELSE IF \E i \in 1..Len(body) : body[i] \notin Digits
            THEN Err(InvalidInt("InvalidDigit"))
       ELSE IF NumLeq(Canon(body), U32Max) THEN Ok(Canon(body))
       ELSE Err(InvalidInt("PosOverflow"))

\* str::parse::<i64>() of an optionally signed decimal text
parse_i64(s) ==
    LET neg == Len(s) > 0 /\ s[1] = "-"
        body == IF Len(s) > 0 /\ s[1] \in {"-", "+"} THEN Tail(s) ELSE s
    IN IF Len(body) = 0 THEN Err(InvalidInt("Empty"))
       ELSE IF \E i \in 1..Len(body) : body[i] \notin Digits
            THEN Err(InvalidInt("InvalidDigit"))
       ELSE IF neg
            THEN IF NumLeq(Canon(body), I64MinAbs)
                 THEN Ok([neg |-> Canon(body) # <<"0">>, abs |-> Canon(body)])
                 ELSE Err(InvalidInt("NegOverflow"))
            ELSE IF NumLeq(Canon(body), I64Max)
                 THEN Ok([neg |-> FALSE, abs |-> Canon(body)])
                 ELSE Err(InvalidInt("PosOverflow"))

---------------------------------------------------------------------------
(* Timestamps.  A timestamp text is [secs, frac, off, cal]: the second its  *)
(* date and time fields name, the digits of its fraction (<<>> when no      *)
(* fraction is written), its offset suffix ("none", "Z", "+01:00",          *)
(* "-01:00") and whether the calendar fields are in range (month 13 is      *)
(* digits the grammar accepts and chrono rejects).                          *)

OffsetSecs(off) ==
    CASE off = "Z" -> 0 [] off = "+01:00" -> 3600 [] off = "-01:00" -> 0 - 3600

RECURSIVE Pow10(_)
Pow10(n) == IF n = 0 THEN 1 ELSE 10 * Pow10(n - 1)

RECURSIVE DigitsVal(_)
DigitsVal(ds) ==
    IF Len(ds) = 0 THEN 0
    ELSE 10 * DigitsVal(SubSeq(ds, 1, Len(ds) - 1)) + DigitVal(ds[Len(ds)])

\* nanoseconds named by the fraction digits (at most nine are written)
FracNanos(ds) == DigitsVal(ds) * Pow10(9 - Len(ds))

\* chrono::DateTime::parse_from_rfc3339: an offset is required
parse_from_rfc3339(s) ==
    IF s.cal /\ s.off # "none"
    THEN Ok([local |-> s.secs, nanos |-> FracNanos(s.frac), offset |-> OffsetSecs(s.off)])
    ELSE Err("chrono::ParseError")

\* DateTime<FixedOffset>::with_timezone(&Utc)
with_timezone_utc(dt) == [secs |-> dt.local - dt.offset, nanos |-> dt.nanos]

\* NaiveDateTime::parse_from_str(s, "%Y-%m-%dT%H:%M:%S")
parse_naive_seconds(s) ==
    IF s.cal /\ s.off = "none" /\ s.frac = <<>>
    THEN Ok([local |-> s.secs, nanos |-> 0])
    ELSE Err("chrono::ParseError")

\* NaiveDateTime::parse_from_str(s, "%Y-%m-%dT%H:%M:%S%.f"): %.f may read nothing
parse_naive_fraction(s) ==
    IF s.cal /\ s.off = "none"
    THEN Ok([local |-> s.secs, nanos |-> FracNanos(s.frac)])
    ELSE Err("chrono::ParseError")

\* NaiveDateTime::and_utc
and_utc(n) == [secs |-> n.local, nanos |-> n.nanos]

\* The or_else chain with the formats it ran, in order
timestamp_attempts_no_fraction(s) ==
    LET a == parse_from_rfc3339(s)
        b == parse_naive_seconds(s)
    IN IF a.ok THEN [res |-> Ok(with_timezone_utc(a.val)), tried |-> <<"rfc3339">>]
       ELSE IF b.ok
            THEN [res |-> Ok(and_utc(b.val)), tried |-> <<"rfc3339", "seconds">>]
       ELSE [res |-> b, tried |-> <<"rfc3339", "seconds">>]

timestamp_attempts(s) ==
    LET a == parse_from_rfc3339(s)
        b == parse_naive_seconds(s)
        c == parse_naive_fraction(s)
    IN IF a.ok THEN [res |-> Ok(with_timezone_utc(a.val)), tried |-> <<"rfc3339">>]
       ELSE IF b.ok
            THEN [res |-> Ok(and_utc(b.val)), tried |-> <<"rfc3339", "seconds">>]
       ELSE IF c.ok
            THEN [res |-> Ok(and_utc(c.val)),
                  tried |-> <<"rfc3339", "seconds", "fraction">>]
       ELSE [res |-> c, tried |-> <<"rfc3339", "seconds", "fraction">>]

parse_timestamp(s) ==
    LET r == timestamp_attempts(s).res
    IN IF r.ok THEN r ELSE Err(InvalidTimestamp(s))

---------------------------------------------------------------------------
(* str::parse::<f64>() of a decimal text: digits with at most one point.    *)
(* The value is kept as its integer numeral and its fraction digits         *)
(* without trailing zeros (binary rounding is not modelled).                *)

RECURSIVE StripTrailingZeros(_)
StripTrailingZeros(ds) ==
    IF Len(ds) > 0 /\ ds[Len(ds)] = "0"
    THEN StripTrailingZeros(SubSeq(ds, 1, Len(ds) - 1))
    ELSE ds

PointAt(s) == {i \in 1..Len(s) : s[i] = "."}

parse_f64(s) ==
    IF \/ Len(s) = 0
       \/ \E i \in 1..Len(s) : s[i] \notin Digits \cup {"."}
       \/ Cardinality(PointAt(s)) > 1
       \/ s = <<".">>
    THEN Err(InvalidFloat("Invalid"))
    ELSE IF PointAt(s) = {}
         THEN Ok([int |-> Canon(s), frac |-> <<>>])
         ELSE LET k == CHOOSE i \in PointAt(s) : TRUE
                  ip == SubSeq(s, 1, k - 1)
              IN Ok([int |-> IF ip = <<>> THEN <<"0">> ELSE Canon(ip),
                     frac |-> StripTrailingZeros(SubSeq(s, k + 1, Len(s)))])

---------------------------------------------------------------------------
(* Concrete parse tree (pest Pair) and the AST nodes of ast.rs *)

Leaf(rule, str) == [rule |-> rule, inner |-> <<>>, str |-> str]
TimeLeaf(time) == [rule |-> "time", inner |-> <<>>, time |-> time]
Node(rule, inner) == [rule |-> rule, inner |-> inner, str |-> <<>>]

\* Pair::as_str
as_str(p) == IF p.rule = "time" THEN p.time ELSE p.str

Star == [tag |-> "Star"]
Index(n) == [tag |-> "Index", n |-> n]

PathComponent(property, index) == [property |-> property, index |-> index]

ObjectPath(object_type, property_path) ==
    [object_type |-> object_type, property_path |-> property_path]

StixString(s) == [tag |-> "String", s |-> s]
StixInt(i) == [tag |-> "Int", i |-> i]
StixFloat(f) == [tag |-> "Float", f |-> f]
StixBool(b) == [tag |-> "Bool", b |-> b]
StixTimestamp(ts) == [tag |-> "Timestamp", ts |-> ts]
StixHex(h) == [tag |-> "Hex", h |-> h]
StixBinary(bin) == [tag |-> "Binary", bin |-> bin]

RhsValue(v) == [rhs |-> "Value", value |-> v]
RhsList(vs) == [rhs |-> "List", values |-> vs]

ComparisonOp(name) == [family |-> "Comparison", name |-> name]
UnaryOp(name) == [family |-> "Unary", name |-> name]

Comparison(lhs, op, rhs, negated) ==
    [node |-> "Comparison", object_path |-> lhs, op |-> op,
     constant |-> rhs, negated |-> negated]

CompositeComparison(left, op, right) ==
    [node |-> "CompositeComparison", left |-> left, bop |-> op, right |-> right]

CompositePattern(left, op, right) ==
    [node |-> "CompositePattern", pleft |-> left, oop |-> op, pright |-> right]

QualifiedPattern(pattern, repeat, within, start, stop) ==
    [node |-> "QualifiedPattern", pattern |-> pattern, repeat |-> repeat,
     within |-> within, start |-> start, stop |-> stop]

---------------------------------------------------------------------------
(* Path builder *)

strip_quotes(s) ==
    IF Len(s) >= 2 /\ s[1] = QT /\ s[Len(s)] = QT
    THEN SubSeq(s, 2, Len(s) - 1)
    ELSE s

\* the index arm of parse_step: "*" or a u32
parse_index_wrapping(idx_str) ==
    IF idx_str = <<"*">> THEN Ok(Star)
    ELSE Try(parse_u32_truncating(idx_str), LAMBDA n : Ok(Index(n)))

parse_index(idx_str) ==
    IF idx_str = <<"*">> THEN Ok(Star)
    ELSE Try(parse_u32(idx_str), LAMBDA n : Ok(Index(n)))

RECURSIVE parse_step_loop(_, _, _, _)
parse_step_loop(inner, i, property, index) ==
    IF i > Len(inner) THEN Ok(PathComponent(property, index))
    ELSE LET p == inner[i]
         IN CASE p.rule = "property" ->
                   parse_step_loop(inner, i + 1, strip_quotes(as_str(p)), index)
              [] p.rule = "index" ->
                   Try(parse_index(as_str(p)),
                       LAMBDA ix : parse_step_loop(inner, i + 1, property, Some(ix)))
              [] OTHER -> parse_step_loop(inner, i + 1, property, index)

parse_step(pair) == parse_step_loop(pair.inner, 1, <<>>, None)

\* property_path.push(parse_step(p)?)
push_step(property_path, component) == Append(property_path, component)

RECURSIVE parse_object_path_loop(_, _, _, _)
parse_object_path_loop(inner, i, object_type, property_path) ==
    IF i > Len(inner) THEN Ok(ObjectPath(object_type, property_path))
    ELSE LET p == inner[i]
         IN CASE p.rule = "object" ->
                   parse_object_path_loop(inner, i + 1, as_str(p), property_path)
              [] p.rule = "step" ->
                   Try(parse_step(p),
                       LAMBDA component :
                           parse_object_path_loop(inner, i + 1, object_type,
                               push_step(property_path, component)))
              [] OTHER -> parse_object_path_loop(inner, i + 1, object_type, property_path)

parse_object_path(pair) == parse_object_path_loop(pair.inner, 1, <<>>, <<>>)

---------------------------------------------------------------------------
(* Literal normalizer: parse_value and parse_list *)

TrueText == <<"t", "r", "u", "e">>
FalseText == <<"f", "a", "l", "s", "e">>

parse_value(pair) ==
    IF Len(pair.inner) = 0 THEN Err(MissingElement("value content"))
    ELSE LET inner == pair.inner[1]
         IN CASE inner.rule = "string" ->
                   Ok(StixString(unescape_string(as_str(inner))))
              [] inner.rule = "bool" -> Ok(StixBool(as_str(inner) = TrueText))
              [] inner.rule = "float" ->
                   Try(parse_f64(as_str(inner)), LAMBDA f : Ok(StixFloat(f)))
              [] inner.rule = "int" ->
                   Try(parse_i64(as_str(inner)), LAMBDA n : Ok(StixInt(n)))
              [] inner.rule = "time" ->
                   Try(parse_timestamp(as_str(inner)), LAMBDA ts : Ok(StixTimestamp(ts)))
              [] inner.rule = "hex" -> Ok(StixHex(as_str(inner)))
              [] inner.rule = "bin" -> Ok(StixBinary(as_str(inner)))
              [] OTHER -> Err(UnexpectedRule(inner.rule))

RECURSIVE parse_list_loop(_, _, _)
parse_list_loop(inner, i, values) ==
    IF i > Len(inner) THEN Ok(values)
    ELSE IF inner[i].rule # "value" THEN parse_list_loop(inner, i + 1, values)
    ELSE Try(parse_value(inner[i]),
             LAMBDA v : parse_list_loop(inner, i + 1, Append(values, v)))

parse_list(pair) == parse_list_loop(pair.inner, 1, <<>>)

---------------------------------------------------------------------------
(* Comparison builder *)

try_parse_comp_op_swapped(rule) ==
    CASE rule = "equal" -> Some("Eq")
      [] rule = "not_equal" -> Some("Neq")
      [] rule = "gt" -> Some("Gt")
      [] rule = "lt" -> Some("Lt")
      [] rule = "ge" -> Some("Le")
      [] rule = "le" -> Some("Ge")
      [] rule = "in" -> Some("In")
      [] rule = "like" -> Some("Like")
      [] rule = "match" -> Some("Matches")
      [] rule = "issubset" -> Some("IsSubset")
      [] rule = "issuperset" -> Some("IsSuperset")
      [] OTHER -> None

try_parse_comp_op(rule) ==
    CASE rule = "equal" -> Some("Eq")
      [] rule = "not_equal" -> Some("Neq")
      [] rule = "gt" -> Some("Gt")
      [] rule = "lt" -> Some("Lt")
      [] rule = "ge" -> Some("Ge")
      [] rule = "le" -> Some("Le")
      [] rule = "in" -> Some("In")
      [] rule = "like" -> Some("Like")
      [] rule = "match" -> Some("Matches")
      [] rule = "issubset" -> Some("IsSubset")
      [] rule = "issuperset" -> Some("IsSuperset")
      [] OTHER -> None

\* BooleanOp::default()
DefaultBooleanOp == "And"

merge_exprs_right(left, right, op) ==
    IF ~IsSome(left) THEN right
    ELSE LET l == Unwrap(left)
             o == IF IsSome(op) THEN Unwrap(op) ELSE DefaultBooleanOp
         IN IF l.node = "CompositeComparison"
            THEN CompositeComparison(l.left, l.bop, CompositeComparison(l.right, o, right))
            ELSE CompositeComparison(l, o, right)

\* a variant that puts the new comparison on the left
merge_exprs_swapped(left, right, op) ==
    IF ~IsSome(left) THEN right
    ELSE CompositeComparison(right, IF IsSome(op) THEN Unwrap(op) ELSE DefaultBooleanOp,
                             Unwrap(left))

merge_exprs(left, right, op) ==
    IF ~IsSome(left) THEN right
    ELSE CompositeComparison(Unwrap(left),
                             IF IsSome(op) THEN Unwrap(op) ELSE DefaultBooleanOp,
                             right)

\* the loop over what follows the path in "path [NOT] op value"
RECURSIVE normal_comparison_loop(_, _, _, _, _)
normal_comparison_loop(inner, i, negated, op, rhs) ==
    IF i > Len(inner) THEN Ok([negated |-> negated, op |-> op, rhs |-> rhs])
    ELSE LET p == inner[i]
         IN CASE p.rule = "not" -> normal_comparison_loop(inner, i + 1, TRUE, op, rhs)
              [] p.rule = "value" ->
                   Try(parse_value(p),
                       LAMBDA v : normal_comparison_loop(inner, i + 1, negated, op,
                                                         Some(RhsValue(v))))
              [] p.rule = "list" ->
                   Try(parse_list(p),
                       LAMBDA vs : normal_comparison_loop(inner, i + 1, negated, op,
                                                          Some(RhsList(vs))))
              [] OTHER ->
                   LET parsed_op == try_parse_comp_op(p.rule)
                   IN normal_comparison_loop(inner, i + 1, negated,
                          IF IsSome(parsed_op) THEN Some(ComparisonOp(Unwrap(parsed_op)))
                          ELSE op,
                          rhs)

\* let op = op.ok_or(MissingElement("operator"))?; Ok(Comparison::new(...))
new_comparison(path, rest) ==
    IF ~IsSome(rest.op) THEN Err(MissingElement("operator"))
    ELSE Ok(Comparison(path, Unwrap(rest.op), rest.rhs, rest.negated))

\* a variant that reads the operator and value before the path
parse_normal_comparison_path_last(inner) ==
    Try(normal_comparison_loop(inner, 2, FALSE, None, None),
        LAMBDA rest :
            Try(parse_object_path(inner[1]), LAMBDA path : new_comparison(path, rest)))

parse_normal_comparison(inner) ==
    Try(parse_object_path(inner[1]),
        LAMBDA path :
            Try(normal_comparison_loop(inner, 2, FALSE, None, None),
                LAMBDA rest : new_comparison(path, rest)))

parse_exists_comparison(inner) ==
    IF Len(inner) < 2 THEN Err(MissingElement("path"))
    ELSE Try(parse_object_path(inner[2]),
             LAMBDA path : Ok(Comparison(path, UnaryOp("Exists"), None, FALSE)))

RECURSIVE parse_comparison(_)

RECURSIVE comparison_group_loop(_, _, _, _)
comparison_group_loop(inner, i, expr, pending_op) ==
    IF i > Len(inner)
    THEN IF IsSome(expr) THEN Ok(Unwrap(expr)) ELSE Err(MissingElement("comparison"))
    ELSE LET p == inner[i]
         IN CASE p.rule = "comparison" ->
                   Try(parse_comparison(p),
                       LAMBDA comp :
                           comparison_group_loop(inner, i + 1,
                               Some(merge_exprs(expr, comp, pending_op)), None))
              [] p.rule = "and" -> comparison_group_loop(inner, i + 1, expr, Some("And"))
              [] p.rule = "or" -> comparison_group_loop(inner, i + 1, expr, Some("Or"))
              [] OTHER -> comparison_group_loop(inner, i + 1, expr, pending_op)

parse_comparison(pair) ==
    LET inner == pair.inner
        peek == IF Len(inner) = 0 THEN "" ELSE inner[1].rule
    IN CASE peek = "comparison" -> comparison_group_loop(inner, 1, None, None)
         [] peek = "exists" -> parse_exists_comparison(inner)
         [] peek = "path" -> parse_normal_comparison(inner)
         [] OTHER -> Err(MissingElement("comparison content"))

---------------------------------------------------------------------------
(* Qualifier accumulator *)

\* Qualifiers::default()
DefaultQualifiers == [repeat |-> None, within |-> None, start |-> None, stop |-> None]

is_empty(q) ==
    ~IsSome(q.repeat) /\ ~IsSome(q.within) /\ ~IsSome(q.start) /\ ~IsSome(q.stop)

apply_to_always(q, pattern) ==
    QualifiedPattern(pattern, q.repeat, q.within, q.start, q.stop)

\* a variant that wraps once for each kind of clause
apply_to_each(q, pattern) ==
    LET r == IF IsSome(q.repeat)
             THEN QualifiedPattern(pattern, q.repeat, None, None, None) ELSE pattern
        w == IF IsSome(q.within)
             THEN QualifiedPattern(r, None, q.within, None, None) ELSE r
    IN IF IsSome(q.start) \/ IsSome(q.stop)
       THEN QualifiedPattern(w, None, None, q.start, q.stop) ELSE w

apply_to(q, pattern) ==
    IF is_empty(q) THEN pattern
    ELSE QualifiedPattern(pattern, q.repeat, q.within, q.start, q.stop)

RECURSIVE repeat_loop(_, _, _)
repeat_loop(inner, i, q) ==
    IF i > Len(inner) THEN Ok(q)
    ELSE IF inner[i].rule = "pos_int"
         THEN Try(parse_u32(as_str(inner[i])),
                  LAMBDA n : repeat_loop(inner, i + 1, [q EXCEPT !.repeat = Some(n)]))
         ELSE repeat_loop(inner, i + 1, q)

RECURSIVE within_loop(_, _, _)
within_loop(inner, i, q) ==
    IF i > Len(inner) THEN Ok(q)
    ELSE IF inner[i].rule \in {"pos_float", "pos_int"}
         THEN Try(parse_f64(as_str(inner[i])),
                  LAMBDA x : within_loop(inner, i + 1, [q EXCEPT !.within = Some(x)]))
         ELSE within_loop(inner, i + 1, q)

RECURSIVE interval_loop(_, _, _)
interval_loop(inner, i, q) ==
    IF i > Len(inner) THEN Ok(q)
    ELSE IF inner[i].rule = "time"
         THEN Try(parse_timestamp(as_str(inner[i])),
                  LAMBDA ts :
                      IF ~IsSome(q.start)
                      THEN interval_loop(inner, i + 1, [q EXCEPT !.start = Some(ts)])
                      ELSE interval_loop(inner, i + 1, [q EXCEPT !.stop = Some(ts)]))
         ELSE interval_loop(inner, i + 1, q)

parse_qualifier(pair, q) ==
    IF Len(pair.inner) = 0 THEN Err(MissingElement("qualifier content"))
    ELSE LET inner == pair.inner[1]
         IN CASE inner.rule = "repeat" -> repeat_loop(inner.inner, 1, q)
              [] inner.rule = "within" -> within_loop(inner.inner, 1, q)
              [] inner.rule = "interval" -> interval_loop(inner.inner, 1, q)
              [] OTHER -> Ok(q)

---------------------------------------------------------------------------
(* Pattern builder *)

parse_obs_op(pair) ==
    CASE pair.rule = "and" -> Ok("And")
      [] pair.rule = "or" -> Ok("Or")
      [] pair.rule = "followedby" -> Ok("FollowedBy")
      [] OTHER -> Err(UnexpectedRule(pair.rule))

\* left = CompositePattern::new(left, op, right).into()
fold_pattern_right(left, op, right) ==
    IF left.node = "CompositePattern"
    THEN CompositePattern(left.pleft, left.oop, CompositePattern(left.pright, op, right))
    ELSE CompositePattern(left, op, right)

fold_pattern(left, op, right) == CompositePattern(left, op, right)

RECURSIVE parse_observation_loop(_, _, _, _, _)
parse_observation_loop(inner, i, expr, pending_op, qualifiers) ==
    IF i > Len(inner)
    THEN IF IsSome(expr) THEN Ok(apply_to(qualifiers, Unwrap(expr)))
         ELSE Err(MissingElement("comparison"))
    ELSE LET p == inner[i]
         IN CASE p.rule = "comparison" ->
                   Try(parse_comparison(p),
                       LAMBDA comp :
                           parse_observation_loop(inner, i + 1,
                               Some(merge_exprs(expr, comp, pending_op)), None,
                               qualifiers))
              [] p.rule = "and" ->
                   parse_observation_loop(inner, i + 1, expr, Some("And"), qualifiers)
              [] p.rule = "or" ->
                   parse_observation_loop(inner, i + 1, expr, Some("Or"), qualifiers)
              [] p.rule = "qualifier" ->
                   Try(parse_qualifier(p, qualifiers),
                       LAMBDA q : parse_observation_loop(inner, i + 1, expr, pending_op, q))
              [] OTHER ->
                   parse_observation_loop(inner, i + 1, expr, pending_op, qualifiers)

parse_observation(pair) ==
    parse_observation_loop(pair.inner, 1, None, None, DefaultQualifiers)

RECURSIVE parse_pair(_)
RECURSIVE parse_expression(_)

RECURSIVE parse_observation_group_loop(_, _, _, _)
parse_observation_group_loop(inner, i, inner_pattern, qualifiers) ==
    IF i > Len(inner)
    THEN IF IsSome(inner_pattern) THEN Ok(apply_to(qualifiers, Unwrap(inner_pattern)))
         ELSE Err(MissingElement("expression"))
    ELSE LET p == inner[i]
         IN CASE p.rule = "expression" ->
                   Try(parse_expression(p),
                       LAMBDA e : parse_observation_group_loop(inner, i + 1, Some(e),
                                                               qualifiers))
              [] p.rule = "qualifier" ->
                   Try(parse_qualifier(p, qualifiers),
                       LAMBDA q : parse_observation_group_loop(inner, i + 1,
                                                               inner_pattern, q))
              [] OTHER ->
                   parse_observation_group_loop(inner, i + 1, inner_pattern, qualifiers)

parse_observation_group(pair) ==
    parse_observation_group_loop(pair.inner, 1, None, DefaultQualifiers)

\* the while-let loop of parse_expression: i is the position of the next operator
RECURSIVE parse_expression_loop(_, _, _)
parse_expression_loop(inner, i, left) ==
    IF i > Len(inner) THEN Ok(left)
    ELSE Try(parse_obs_op(inner[i]),
             LAMBDA op :
                 IF i + 1 > Len(inner) THEN Err(MissingElement("right operand"))
                 ELSE Try(parse_pair(inner[i + 1]),
                          LAMBDA right :
                              parse_expression_loop(inner, i + 2,
                                                    fold_pattern(left, op, right))))

parse_expression(pair) ==
    IF Len(pair.inner) = 0 THEN Err(MissingElement("expression"))
    ELSE Try(parse_pair(pair.inner[1]),
             LAMBDA first : parse_expression_loop(pair.inner, 2, first))

parse_pattern_rule(pair) ==
    LET found == {i \in 1..Len(pair.inner) : pair.inner[i].rule = "expression"}
    IN IF found = {} THEN Err(MissingElement("expression"))
       ELSE parse_expression(pair.inner[CHOOSE i \in found : \A j \in found : i <= j])

parse_pair(pair) ==
    CASE pair.rule = "pattern" -> parse_pattern_rule(pair)
      [] pair.rule = "expression" -> parse_expression(pair)
      [] pair.rule = "observation" -> parse_observation(pair)
      [] pair.rule = "observation_group" -> parse_observation_group(pair)
      [] OTHER -> Err(UnexpectedRule(pair.rule))

\* parse_pattern once the grammar has produced the pattern pair
parse_pattern(pair) == parse_pair(pair)

---------------------------------------------------------------------------
(* The concrete trees the grammar recognizer hands to the builder          *)
(* (grammar.pest: the productions of the surface grammar, with the rule    *)
(* names the builder matches on).  Delimiters are not part of a leaf's     *)
(* text: a string leaf spans the body between its quotes.                  *)

Tok(rule) == Leaf(rule, <<>>)

\* operands f[1..k] joined by the operator tokens g[1..k-1]
Interleave(f, g) ==
    [i \in 1..(2 * Len(f) - 1) |->
        IF i % 2 = 1 THEN f[(i + 1) \div 2] ELSE Tok(g[i \div 2])]

\* every "operand (op operand)*" sequence of at most n operands
Chains(operands, ops, n) ==
    UNION {{Interleave(f, g) : f \in [1..k -> operands], g \in [1..(k - 1) -> ops]} :
           k \in 1..n}

SeqsUpTo(S, lo, hi) == UNION {[1..k -> S] : k \in lo..hi}

StepPair(property, index) ==
    Node("step", <<Leaf("property", property)>>
                 \o (IF IsSome(index) THEN <<Leaf("index", Unwrap(index))>> ELSE <<>>))

PathPair(object, steps) == Node("path", <<Leaf("object", object)>> \o steps)

U32Over == <<"4", "2", "9", "4", "9", "6", "7", "2", "9", "6">>
I64Over == <<"9", "2", "2", "3", "3", "7", "2", "0", "3", "6", "8", "5", "4",
             "7", "7", "5", "8", "0", "8">>

ObjectTexts == {<<"f">>, <<"n", "t">>}
PropertyTexts == {<<"n">>, <<"h">>, <<QT, "x", QT>>}
IndexTexts == {<<"*">>, <<"0">>, <<"0", "7">>, U32Max, U32Over}

StepPairs ==
    {StepPair(pr, ix) : pr \in PropertyTexts,
                        ix \in {None} \cup {Some(x) : x \in IndexTexts}}

PathPairs ==
    {PathPair(o, steps) : o \in ObjectTexts, steps \in SeqsUpTo(StepPairs, 1, MaxSteps)}

TimeTexts ==
    [secs : {0, 3600}, frac : {<<>>, <<"5">>, <<"2", "5", "0">>},
     off : {"none", "Z", "+01:00", "-01:00"}, cal : BOOLEAN]

GoodTime == [secs |-> 3600, frac |-> <<>>, off |-> "Z", cal |-> TRUE]
LaterTime == [secs |-> 0, frac |-> <<"5">>, off |-> "none", cal |-> TRUE]
BadTime == [secs |-> 0, frac |-> <<>>, off |-> "Z", cal |-> FALSE]
BadStop == [secs |-> 3600, frac |-> <<"5">>, off |-> "none", cal |-> FALSE]

ValuePair(lit) == Node("value", <<lit>>)

Literals ==
    {Leaf("string", <<"a">>), Leaf("string", <<"a", BS, QT, "a">>),
     Leaf("string", <<BS, "n", BS, "a">>),
     Leaf("bool", TrueText), Leaf("bool", FalseText),
     Leaf("float", <<"1", ".", "5", "0">>),
     Leaf("int", <<"1", "0", "0">>), Leaf("int", <<"-", "0", "5">>),
     Leaf("int", I64Over),
     TimeLeaf(GoodTime), TimeLeaf(LaterTime), TimeLeaf(BadTime),
     Leaf("hex", <<"f", "f">>), Leaf("bin", <<"Z", "g">>)}

ListLiterals == {Leaf("string", <<"a">>), Leaf("int", <<"1", "0", "0">>), TimeLeaf(BadTime)}

ListPairs ==
    {Node("list", [i \in 1..Len(ls) |-> ValuePair(ls[i])]) :
        ls \in SeqsUpTo(ListLiterals, 1, 2)}

CompOpRules ==
    {"equal", "not_equal", "gt", "lt", "ge", "le", "in", "like", "match",
     "issubset", "issuperset"}

PathName == PathPair(<<"f">>, <<StepPair(<<"n">>, None)>>)
PathHash ==
    PathPair(<<"f">>, <<StepPair(<<"h">>, Some(<<"0">>)), StepPair(<<QT, "x", QT>>, Some(<<"*">>))>>)
PathOver == PathPair(<<"n", "t">>, <<StepPair(<<"h">>, Some(U32Over))>>)

SamplePaths == {PathName, PathHash, PathOver}

NormalComparison(path, negated, op, rhs) ==
    Node("comparison", <<path>> \o (IF negated THEN <<Tok("not")>> ELSE <<>>)
                       \o <<Tok(op), rhs>>)

ExistsComparison(path) == Node("comparison", <<Tok("exists"), path>>)

\* every single comparison over the sample paths, operators and literals
SingleComparisons ==
    {NormalComparison(pa, ng, op, rhs) :
        pa \in SamplePaths, ng \in BOOLEAN, op \in CompOpRules,
        rhs \in {ValuePair(l) : l \in Literals} \cup ListPairs}
    \cup {ExistsComparison(pa) : pa \in SamplePaths}

GroupComparison(chain) == Node("comparison", chain)

TermA == NormalComparison(PathName, FALSE, "equal", ValuePair(Leaf("string", <<"a">>)))
TermB == NormalComparison(PathHash, TRUE, "gt", ValuePair(Leaf("int", <<"1", "0", "0">>)))
TermE == ExistsComparison(PathName)
TermBadTime == NormalComparison(PathName, FALSE, "lt", ValuePair(TimeLeaf(BadTime)))
TermBadInt == NormalComparison(PathName, FALSE, "le", ValuePair(Leaf("int", I64Over)))
TermBadBoth == NormalComparison(PathOver, FALSE, "ge", ValuePair(TimeLeaf(BadTime)))

GroupOr == GroupComparison(<<TermA, Tok("or"), TermE>>)
GroupThree == GroupComparison(<<TermB, Tok("and"), TermA, Tok("or"), TermB>>)
GroupNested == GroupComparison(<<GroupComparison(<<TermE>>), Tok("or"), TermBadTime>>)

Terms == {TermA, TermB, TermBadBoth, GroupOr, GroupThree, GroupNested}

QualifierPair(clause) == Node("qualifier", <<clause>>)

Clauses ==
    {Node("repeat", <<Leaf("pos_int", <<"5">>)>>),
     Node("repeat", <<Leaf("pos_int", U32Over)>>),
     Node("within", <<Leaf("pos_int", <<"0", "5">>)>>),
     Node("within", <<Leaf("pos_float", <<"2", ".", "5", "0">>)>>),
     Node("interval", <<TimeLeaf(GoodTime), TimeLeaf(LaterTime)>>),
     Node("interval", <<TimeLeaf(LaterTime), TimeLeaf(GoodTime)>>),
     Node("interval", <<TimeLeaf(LaterTime), TimeLeaf(BadStop)>>)}

QualifierSeqs ==
    {[i \in 1..Len(cs) |-> QualifierPair(cs[i])] : cs \in SeqsUpTo(Clauses, 0, MaxQual)}

Observation(chain, quals) == Node("observation", chain \o quals)
ObservationGroup(expression, quals) == Node("observation_group", <<expression>> \o quals)
Expression(chain) == Node("expression", chain)
Pattern(expression) == Node("pattern", <<expression, Tok("EOI")>>)

ObsOpRules == {"and", "or", "followedby"}

ObsA == Observation(<<TermA>>, <<>>)
ObsB == Observation(<<TermB, Tok("or"), TermE>>, <<>>)
ObsBadTime == Observation(<<TermE, Tok("and"), TermBadTime>>, <<>>)
ObsBadInt == Observation(<<TermBadInt>>, <<>>)
ObsRepeat == Observation(<<TermE>>, <<QualifierPair(Node("repeat", <<Leaf("pos_int", <<"5">>)>>))>>)
GroupAB == ObservationGroup(Expression(<<ObsA, Tok("followedby"), ObsB, Tok("or"), ObsA>>), <<>>)

Operands == {ObsA, ObsB, ObsBadTime, ObsBadInt, ObsRepeat, GroupAB}

\* [single comparison]
SinglePatterns ==
    {Pattern(Expression(<<Observation(<<c>>, <<>>)>>)) : c \in SingleComparisons}

\* [term (AND|OR term)*]: the longest chains over fewer terms
TermPatterns ==
    {Pattern(Expression(<<Observation(ch, <<>>)>>)) :
        ch \in Chains(Terms, {"and", "or"}, MaxTerms - 1)
               \cup Chains({TermA, TermB, TermBadBoth}, {"and", "or"}, MaxTerms)}

\* operand ((AND|OR|FOLLOWEDBY) operand)*: the longest chains over fewer operands
ObsPatterns ==
    {Pattern(Expression(ch)) :
        ch \in Chains(Operands, ObsOpRules, MaxObs - 1)
               \cup Chains({ObsA, ObsBadInt, GroupAB}, ObsOpRules, MaxObs)}

\* one observation or one parenthesized group followed by qualifiers
QualifiedPatterns ==
    {Pattern(Expression(<<Observation(<<TermA, Tok("and"), TermE>>, qs)>>)) :
        qs \in QualifierSeqs}
    \cup {Pattern(Expression(<<ObservationGroup(Expression(<<ObsA, Tok("or"), ObsRepeat>>), qs)>>)) :
            qs \in QualifierSeqs}

\* n parentheses around an observation: ( ... ([b] OR (core)) ... )
RECURSIVE NestedGroup(_, _)
NestedGroup(n, core) ==
    IF n = 0 THEN core
    ELSE ObservationGroup(Expression(<<ObsB, Tok("or"), NestedGroup(n - 1, core)>>), <<>>)

\* n parentheses around a comparison: [( ... (core AND exists) ... )]
RECURSIVE NestedComparison(_, _)
NestedComparison(n, core) ==
    IF n = 0 THEN core
    ELSE GroupComparison(<<NestedComparison(n - 1, core), Tok("and"), TermE>>)

NestedPatterns ==
    {Pattern(Expression(<<NestedGroup(n, core)>>)) :
        n \in 1..MaxNest, core \in {ObsA, ObsRepeat, ObsBadInt}}
    \cup {Pattern(Expression(<<Observation(<<NestedComparison(n, core)>>, <<>>)>>)) :
            n \in 1..MaxNest, core \in {TermA, TermBadTime}}

PatternPairs ==
    SinglePatterns \cup TermPatterns \cup ObsPatterns \cup QualifiedPatterns
    \cup NestedPatterns

\* Productions with a comparison operator and no value or list child, as a
\* grammar rule with an optional right-hand side would hand them over.
BareComparisons ==
    {Node("comparison", <<pa>> \o (IF ng THEN <<Tok("not")>> ELSE <<>>) \o <<Tok(op)>>) :
        pa \in SamplePaths, ng \in BOOLEAN, op \in CompOpRules}

BarePatterns ==
    {Pattern(Expression(<<Observation(ch, <<>>)>>)) :
        ch \in {<<c>> : c \in BareComparisons}
               \cup {<<TermE, Tok("or"), c>> : c \in BareComparisons}}

---------------------------------------------------------------------------
(* Reading the input and the result for the properties below *)

\* every pair of the concrete tree rooted at p
RECURSIVE SubPairs(_)
SubPairs(p) == {p} \cup UNION {SubPairs(p.inner[i]) : i \in 1..Len(p.inner)}

\* every node of a built tree
RECURSIVE AstNodes(_)
AstNodes(n) ==
    {n} \cup CASE n.node = "CompositeComparison" -> AstNodes(n.left) \cup AstNodes(n.right)
               [] n.node = "CompositePattern" -> AstNodes(n.pleft) \cup AstNodes(n.pright)
               [] n.node = "QualifiedPattern" -> AstNodes(n.pattern)
               [] OTHER -> {}

Children(p, rules) == SelectSeq(p.inner, LAMBDA c : c.rule \in rules)

Done(k) == pc = "done" /\ kind = k

TopExpression == input.inner[1]

\* the combinator a token spells
WrittenOp == [and |-> "And", or |-> "Or", followedby |-> "FollowedBy"]

\* what the literal normalizer makes of one leaf under a parent production
LeafResult(p, parent) ==
    CASE p.rule = "index" -> parse_index(as_str(p))
      [] p.rule = "int" -> parse_i64(as_str(p))
      [] p.rule = "float" -> parse_f64(as_str(p))
      [] p.rule = "time" -> parse_timestamp(as_str(p))
      [] p.rule = "pos_int" /\ parent = "repeat" -> parse_u32(as_str(p))
      [] p.rule \in {"pos_int", "pos_float"} /\ parent = "within" -> parse_f64(as_str(p))
      [] OTHER -> Ok(<<>>)

\* the errors of the failing leaves of p, in input order
RECURSIVE DocErrors(_, _)
RECURSIVE DocErrorsFrom(_, _)
DocErrorsFrom(p, i) ==
    IF i > Len(p.inner) THEN <<>>
    ELSE DocErrors(p.inner[i], p.rule) \o DocErrorsFrom(p, i + 1)

DocErrors(p, parent) ==
    IF Len(p.inner) = 0
    THEN IF LeafResult(p, parent).ok THEN <<>> ELSE <<LeafResult(p, parent).err>>
    ELSE DocErrorsFrom(p, 1)

InputErrors == DocErrors(input, "")

---------------------------------------------------------------------------
(* C1 *)

NumOperands(e) == (Len(e.inner) + 1) \div 2
OperandResult(e, i) == parse_pair(e.inner[2 * i - 1])
OperandsOk(e) == \A i \in 1..NumOperands(e) : OperandResult(e, i).ok

RECURSIVE LeftNested(_, _)
LeftNested(e, k) ==
    IF k = 1 THEN OperandResult(e, 1).val
    ELSE CompositePattern(LeftNested(e, k - 1), WrittenOp[e.inner[2 * (k - 1)].rule],
                          OperandResult(e, k).val)

\* C1: an expression of n observations joined by AND/OR/FOLLOWEDBY builds o1
\* when n = 1 and otherwise the left-nested CompositePattern chain
\* ((o1 c1 o2) c2 o3) ... c(n-1) on, whatever the combinators are; this holds
\* for the pattern's expression and for every parenthesized one inside it.
C1_LeftAssociativeObservations ==
    Done("pattern") =>
        /\ OperandsOk(TopExpression) =>
              out = Ok(LeftNested(TopExpression, NumOperands(TopExpression)))
        /\ \A e \in SubPairs(input) :
              (e.rule = "expression" /\ OperandsOk(e)) =>
                  parse_expression(e) = Ok(LeftNested(e, NumOperands(e)))

C1_Witness ==
    /\ Done("pattern") /\ out.ok
    /\ Len(TopExpression.inner) = 5
    /\ TopExpression.inner[2].rule = "and" /\ TopExpression.inner[4].rule = "or"
    /\ out.val.node = "CompositePattern" /\ out.val.oop = "Or"
    /\ out.val.pleft.node = "CompositePattern" /\ out.val.pleft.oop = "And"
    /\ out.val.pright = OperandResult(TopExpression, 3).val

---------------------------------------------------------------------------
(* C2 *)

Comparisons(p) == Children(p, {"comparison"})
BoolOps(p) == Children(p, {"and", "or"})
TermsOk(p) == \A i \in 1..Len(Comparisons(p)) : parse_comparison(Comparisons(p)[i]).ok

RECURSIVE LeftNestedTerms(_, _)
LeftNestedTerms(p, k) ==
    IF k = 1 THEN parse_comparison(Comparisons(p)[1]).val
    ELSE CompositeComparison(LeftNestedTerms(p, k - 1), WrittenOp[BoolOps(p)[k - 1].rule],
                             parse_comparison(Comparisons(p)[k]).val)

\* what an observation builds, below its qualifier wrapper if it has one
Unqualified(n) == IF n.node = "QualifiedPattern" THEN n.pattern ELSE n

IsComparisonGroup(p) ==
    p.rule = "comparison" /\ Len(p.inner) > 0 /\ p.inner[1].rule = "comparison"

SingleObservation ==
    Len(TopExpression.inner) = 1 /\ TopExpression.inner[1].rule = "observation"

\* C2: the comparisons t1..tn of one bracketed observation, and of one
\* parenthesized comparison group, build the left-nested CompositeComparison
\* chain ((t1 b1 t2) b2 t3) ... b(n-1) tn, each node carrying the combinator
\* written just before its right operand.
C2_LeftAssociativeComparisons ==
    Done("pattern") =>
        /\ (SingleObservation /\ out.ok) =>
              Unqualified(out.val) =
                  LeftNestedTerms(TopExpression.inner[1],
                                  Len(Comparisons(TopExpression.inner[1])))
        /\ \A q \in SubPairs(input) :
              /\ (q.rule = "observation" /\ parse_observation(q).ok) =>
                    Unqualified(parse_observation(q).val) =
                        LeftNestedTerms(q, Len(Comparisons(q)))
              /\ (IsComparisonGroup(q) /\ TermsOk(q)) =>
                    parse_comparison(q) = Ok(LeftNestedTerms(q, Len(Comparisons(q))))

C2_Witness ==
    /\ Done("pattern") /\ SingleObservation /\ out.ok
    /\ Len(Comparisons(TopExpression.inner[1])) = 3
    /\ BoolOps(TopExpression.inner[1])[1].rule = "and"
    /\ BoolOps(TopExpression.inner[1])[2].rule = "or"
    /\ out.val.node = "CompositeComparison" /\ out.val.bop = "Or"
    /\ out.val.left.node = "CompositeComparison" /\ out.val.left.bop = "And"
    /\ out.val.right.node = "Comparison"

---------------------------------------------------------------------------
(* C3 *)

OperatorAgreesWithRhs(n) ==
    /\ n.op.family = "Unary" => ~IsSome(n.constant)
    /\ n.op.family = "Comparison" => IsSome(n.constant)

\* a comparison production with a comparison operator and no value or list
BareOperator(q) ==
    /\ q.rule = "comparison"
    /\ Len(Children(q, CompOpRules)) > 0
    /\ Len(Children(q, {"value", "list"})) = 0

C3_AgreementOnGrammarProductions ==
    (Done("pattern") /\ out.ok /\ ~(\E q \in SubPairs(input) : BareOperator(q))) =>
        \A n \in AstNodes(out.val) : n.node = "Comparison" => OperatorAgreesWithRhs(n)

---------------------------------------------------------------------------
(* C4 *)

NumQualifiers(q) == Len(Children(q, {"qualifier"}))

HasQualifierField(n) ==
    IsSome(n.repeat) \/ IsSome(n.within) \/ IsSome(n.start) \/ IsSome(n.stop)

\* what the operand builds before its qualifiers are applied
InnerPatternOk(q, inner) ==
    IF q.rule = "observation"
    THEN inner = LeftNestedTerms(q, Len(Comparisons(q)))
    ELSE Ok(inner) = parse_expression(q.inner[1])

WrapperRule(q, r) ==
    r.ok =>
        IF NumQualifiers(q) = 0
        THEN InnerPatternOk(q, r.val)
        ELSE /\ r.val.node = "QualifiedPattern"
             /\ HasQualifierField(r.val)
             /\ InnerPatternOk(q, r.val.pattern)

SingleOperand == Len(TopExpression.inner) = 1

\* C4: an observation or parenthesized group followed by no qualifier builds
\* its inner pattern itself; followed by one or more qualifiers it builds a
\* QualifiedPattern around that pattern with at least one of repeat, within,
\* start, stop present; no built QualifiedPattern has all four absent.
C4_WrapperIffQualifier ==
    Done("pattern") =>
        /\ SingleOperand => WrapperRule(TopExpression.inner[1], out)
        /\ \A q \in SubPairs(input) :
              q.rule \in {"observation", "observation_group"} =>
                  WrapperRule(q, parse_pair(q))
        /\ out.ok =>
              \A n \in AstNodes(out.val) :
                  n.node = "QualifiedPattern" => HasQualifierField(n)

C4_Witness ==
    /\ Done("pattern") /\ SingleOperand /\ out.ok
    /\ TopExpression.inner[1].rule = "observation_group"
    /\ NumQualifiers(TopExpression.inner[1]) = 2
    /\ out.val.node = "QualifiedPattern"
    /\ out.val.pattern.node = "CompositePattern"
    /\ out.val.pattern.pright.node = "QualifiedPattern"
    /\ out.val.pattern.pleft.node = "Comparison"
    /\ IsSome(out.val.within) /\ ~IsSome(out.val.repeat)

---------------------------------------------------------------------------
(* C5 *)

SingleComparison == TopExpression.inner[1].inner[1]

IsSingleNormalComparison ==
    /\ SingleObservation
    /\ Len(TopExpression.inner[1].inner) = 1
    /\ SingleComparison.inner[1].rule = "path"
    /\ ~BareOperator(SingleComparison)

WrittenCompOpTable ==
    {<<"equal", "Eq">>, <<"not_equal", "Neq">>, <<"gt", "Gt">>, <<"lt", "Lt">>,
     <<"ge", "Ge">>, <<"le", "Le">>, <<"in", "In">>, <<"like", "Like">>,
     <<"match", "Matches">>, <<"issubset", "IsSubset">>,
     <<"issuperset", "IsSuperset">>}

WrittenCompOp(q) ==
    (CHOOSE row \in WrittenCompOpTable : row[1] = Children(q, CompOpRules)[1].rule)[2]

WrittenRhsPair(q) == q.inner[Len(q.inner)]

WrittenValues(q) ==
    IF WrittenRhsPair(q).rule = "value" THEN <<WrittenRhsPair(q)>>
    ELSE WrittenRhsPair(q).inner

WrittenRhs(q) ==
    IF WrittenRhsPair(q).rule = "value"
    THEN RhsValue(parse_value(WrittenRhsPair(q)).val)
    ELSE RhsList([i \in 1..Len(WrittenValues(q)) |-> parse_value(WrittenValues(q)[i]).val])

ValidComparison(q) ==
    /\ parse_object_path(q.inner[1]).ok
    /\ \A i \in 1..Len(WrittenValues(q)) : parse_value(WrittenValues(q)[i]).ok

\* C5: a single comparison [path [NOT] op value-or-list] whose path and
\* literals are valid builds one Comparison leaf, with no composite and no
\* wrapper, holding the written path, the written operator, the written value
\* or the written list in order, and negated exactly when NOT is written.
C5_SingleComparisonLeaf ==
    (Done("pattern") /\ IsSingleNormalComparison /\ ValidComparison(SingleComparison)) =>
        /\ out.ok
        /\ out.val.node = "Comparison"
        /\ out.val.object_path = parse_object_path(SingleComparison.inner[1]).val
        /\ out.val.op = ComparisonOp(WrittenCompOp(SingleComparison))
        /\ out.val.constant = Some(WrittenRhs(SingleComparison))
        /\ out.val.negated = (Len(Children(SingleComparison, {"not"})) > 0)

C5_Witness ==
    /\ Done("pattern") /\ IsSingleNormalComparison /\ out.ok
    /\ SingleComparison.inner[2].rule = "not"
    /\ SingleComparison.inner[3].rule = "issubset"
    /\ SingleComparison.inner[4].rule = "list"
    /\ out.val.negated
    /\ out.val.op = ComparisonOp("IsSubset")
    /\ out.val.constant[1].rhs = "List"
    /\ Len(out.val.constant[1].values) = 2
    /\ out.val.constant[1].values[1] # out.val.constant[1].values[2]

---------------------------------------------------------------------------
(* C6 *)

\* C6: the builder returns a tree exactly when no leaf of the input fails,
\* and otherwise the single error of the leftmost failing leaf in input
\* order, unchanged, and no tree.
C6_FirstErrorPropagation ==
    Done("pattern") =>
        IF InputErrors = <<>>
        THEN out.ok /\ DOMAIN out = {"ok", "val"}
        ELSE out = Err(InputErrors[1]) /\ DOMAIN out = {"ok", "err"}

C6_Witness ==
    /\ Done("pattern") /\ ~out.ok
    /\ Len(TopExpression.inner) >= 3
    /\ Len(InputErrors) >= 2
    /\ DocErrors(TopExpression.inner[1], "expression") # <<>>
    /\ InputErrors[1].error = "InvalidTimestamp"
    /\ InputErrors[Len(InputErrors)].error = "InvalidInt"
    /\ out.err = InvalidTimestamp(BadTime)

---------------------------------------------------------------------------
(* C7 *)

\* the number of backslashes that stand immediately before position i
BackslashesBefore(s, i) ==
    Cardinality({k \in 1..(i - 1) : \A j \in k..(i - 1) : s[j] = BS})

\* position i follows the backslash of an escape
Escaped(s, i) == BackslashesBefore(s, i) % 2 = 1

EscapeTable ==
    {<<"n", <<LF>>>>, <<"r", <<CR>>>>, <<"t", <<TAB>>>>, <<BS, <<BS>>>>, <<QT, <<QT>>>>}

Emitted(s, i) ==
    IF Escaped(s, i) THEN <<>>
    ELSE IF s[i] # BS THEN <<s[i]>>
    ELSE IF i = Len(s) THEN <<BS>>
    ELSE IF \E row \in EscapeTable : row[1] = s[i + 1]
         THEN (CHOOSE row \in EscapeTable : row[1] = s[i + 1])[2]
         ELSE <<BS, s[i + 1]>>

RECURSIVE EmittedUpTo(_, _)
EmittedUpTo(s, i) == IF i = 0 THEN <<>> ELSE EmittedUpTo(s, i - 1) \o Emitted(s, i)

Normalized(s) == EmittedUpTo(s, Len(s))

IsStringComparison ==
    /\ IsSingleNormalComparison
    /\ WrittenRhsPair(SingleComparison).rule = "value"
    /\ WrittenRhsPair(SingleComparison).inner[1].rule = "string"

\* C7: the body of a string literal is normalized in one left-to-right pass:
\* \n, \r, \t, \\ and \' become newline, carriage return, tab, backslash and
\* quote; a backslash before any other character stays with that character;
\* a final backslash stays; every other character is copied; the pass never
\* fails, and a string value of a comparison is the normalized body.
C7_UnescapeTable ==
    /\ Done("string") => out = Normalized(input)
    /\ (Done("pattern") /\ IsStringComparison /\ out.ok) =>
          out.val.constant =
              Some(RhsValue(StixString(Normalized(
                  as_str(WrittenRhsPair(SingleComparison).inner[1])))))

C7_Witness ==
    /\ Done("string")
    /\ input = <<BS, "a", BS, "n">>
    /\ out = <<BS, "a", LF>>

---------------------------------------------------------------------------
(* C8 *)

HasEscape(u) ==
    \E i \in 1..(Len(u) - 1) : u[i] = BS /\ u[i + 1] \in {"n", "r", "t", BS, QT}

\* C8 as claimed: unescaping the unescaped form of any string changes nothing.
C8_IdempotentOnEveryString ==
    Done("string") => unescape_string(out) = out

\* C8: unescaping twice equals unescaping once exactly for the strings whose
\* unescaped form holds no backslash immediately followed by n, r, t,
\* backslash or quote; the body a\'b normalizes to a'b.
C8_IdempotentWithoutEscapes ==
    Done("string") =>
        /\ (unescape_string(out) = out) <=> ~HasEscape(out)
        /\ input = <<"a", BS, QT, "b">> => out = <<"a", QT, "b">>

C8_Witness ==
    /\ Done("string")
    /\ input = <<"a", BS, QT, "b">>
    /\ out = <<"a", QT, "b">>
    /\ unescape_string(out) = out

---------------------------------------------------------------------------
(* C9 *)

FormatOrder == <<"rfc3339", "seconds", "fraction">>

\* what one format alone makes of the text, as a UTC instant
FormatResult(format, s) ==
    CASE format = "rfc3339" ->
           IF parse_from_rfc3339(s).ok
           THEN Ok(with_timezone_utc(parse_from_rfc3339(s).val))
           ELSE parse_from_rfc3339(s)
      [] format = "seconds" ->
           IF parse_naive_seconds(s).ok
           THEN Ok(and_utc(parse_naive_seconds(s).val))
           ELSE parse_naive_seconds(s)
      [] format = "fraction" ->
           IF parse_naive_fraction(s).ok
           THEN Ok(and_utc(parse_naive_fraction(s).val))
           ELSE parse_naive_fraction(s)

\* C9: the formats are tried in the order RFC3339 (converted to UTC),
\* seconds, fractional seconds (both taken as UTC); a format is tried only
\* when all earlier ones failed; the result is that of the first format that
\* matches, or InvalidTimestamp with the original text when none does; a text
\* ending in Z and the same text without offset give the same instant.
C9_TimestampFormatsInOrder ==
    Done("time") =>
        LET n == Len(out.tried)
        IN /\ n \in 1..3
           /\ out.tried = SubSeq(FormatOrder, 1, n)
           /\ \A i \in 1..(n - 1) : ~FormatResult(FormatOrder[i], input).ok
           /\ IF FormatResult(FormatOrder[n], input).ok
              THEN out.res = FormatResult(FormatOrder[n], input)
              ELSE n = 3 /\ out.res = Err(InvalidTimestamp(input))
           /\ (input.cal /\ input.frac = <<>> /\ input.off \in {"Z", "none"}) =>
                 out.res = Ok([secs |-> input.secs, nanos |-> 0])
           /\ (input.cal /\ input.off = "+01:00") =>
                 out.res.ok /\ out.res.val.secs = input.secs - 3600

C9_Witness ==
    /\ Done("time")
    /\ input.off = "none" /\ input.frac = <<"5">> /\ input.cal
    /\ out.tried = FormatOrder
    /\ out.res = Ok([secs |-> input.secs, nanos |-> 500000000])

---------------------------------------------------------------------------
(* C10 *)

WrittenSteps(p) == Tail(p.inner)

IndexText(step) == IF Len(step.inner) = 2 THEN Some(step.inner[2].str) ELSE None

FitsU32(text) == NumLeq(Canon(text), U32Max)

WrittenIndex(step) ==
    IF ~IsSome(IndexText(step)) THEN None
    ELSE IF Unwrap(IndexText(step)) = <<"*">> THEN Some(Star)
    ELSE Some(Index(Canon(Unwrap(IndexText(step)))))

WrittenName(step) ==
    LET s == step.inner[1].str
    IN IF s[1] = QT THEN SubSeq(s, 2, Len(s) - 1) ELSE s

IndexesFit(p) ==
    \A i \in 1..Len(WrittenSteps(p)) :
        \/ ~IsSome(IndexText(WrittenSteps(p)[i]))
        \/ Unwrap(IndexText(WrittenSteps(p)[i])) = <<"*">>
        \/ FitsU32(Unwrap(IndexText(WrittenSteps(p)[i])))

\* C10: a path builds its first component as the object type and its steps
\* in the written order, each with no index, the wildcard for `*`, or
\* Index(n) for the integer n written; an index above the largest 32 bit
\* unsigned integer makes the build fail with InvalidInt.
C10_PathSteps ==
    Done("path") =>
        IF IndexesFit(input)
        THEN /\ out.ok
             /\ out.val.object_type = input.inner[1].str
             /\ Len(out.val.property_path) = Len(WrittenSteps(input))
             /\ \A i \in 1..Len(WrittenSteps(input)) :
                   out.val.property_path[i] =
                       PathComponent(WrittenName(WrittenSteps(input)[i]),
                                     WrittenIndex(WrittenSteps(input)[i]))
        ELSE ~out.ok /\ out.err.error = "InvalidInt"

C10_Witness ==
    /\ Done("path") /\ out.ok
    /\ Len(out.val.property_path) = 2
    /\ out.val.property_path[1] = PathComponent(<<"h">>, Some(Index(<<"0">>)))
    /\ out.val.property_path[2] = PathComponent(<<"x">>, Some(Star))
    /\ input.inner[3].inner[1].str = <<QT, "x", QT>>

---------------------------------------------------------------------------
(* C11 *)

Max(S) == CHOOSE x \in S : \A y \in S : y <= x

\* a pair that opens one more level of parentheses
OpensGroup(p) ==
    \/ p.rule = "observation_group"
    \/ p.rule = "comparison" /\ Len(p.inner) > 0 /\ p.inner[1].rule = "comparison"

\* how deep the parentheses of the tree rooted at p nest
RECURSIVE NestingDepth(_)
NestingDepth(p) ==
    (IF OpensGroup(p) THEN 1 ELSE 0)
    + Max({0} \cup {NestingDepth(p.inner[i]) : i \in 1..Len(p.inner)})

\* the dedicated error of a nesting-depth guard
NestingTooDeep == [error |-> "NestingTooDeep"]

\* C11: there is a fixed maximum nesting depth, and a pattern whose
\* parentheses (observation groups or comparison groups) nest deeper is
\* rejected with a dedicated error, so the builder never recurses past the
\* maximum.  Stated for the largest maximum the inputs can exceed: a pattern
\* nested MaxNest deep is rejected with that error.
C11_NestingDepthGuard ==
    (Done("pattern") /\ NestingDepth(input) >= MaxNest) =>
        (~out.ok /\ out.err = NestingTooDeep)

\* what the builder does instead: every well-formed pattern is built, however
\* deep it nests, and no result is a depth error
C11_BuiltAtEveryDepth ==
    Done("pattern") =>
        /\ (InputErrors = <<>>) => out.ok
        /\ ~out.ok => out.err.error \in {"InvalidInt", "InvalidFloat", "InvalidTimestamp"}

---------------------------------------------------------------------------
(* C12 *)

\* the clauses written after the operand q, in order
WrittenClauses(q) ==
    [i \in 1..NumQualifiers(q) |-> Children(q, {"qualifier"})[i].inner[1]]

\* the last written clause of one kind, if any
LastClause(q, rule) ==
    LET cs == SelectSeq(WrittenClauses(q), LAMBDA c : c.rule = rule)
    IN IF Len(cs) = 0 THEN None ELSE Some(cs[Len(cs)])

\* the field a clause's i-th literal sets, read with the parser of that field
ClauseField(clause, i, Read(_)) ==
    IF IsSome(clause) THEN Some(Read(as_str(Unwrap(clause).inner[i])).val) ELSE None

LastWriterWins(q, n) ==
    /\ n.repeat = ClauseField(LastClause(q, "repeat"), 1, parse_u32)
    /\ n.within = ClauseField(LastClause(q, "within"), 1, parse_f64)
    /\ n.start = ClauseField(LastClause(q, "interval"), 1, parse_timestamp)
    /\ n.stop = ClauseField(LastClause(q, "interval"), 2, parse_timestamp)

Qualified(q) ==
    q.rule \in {"observation", "observation_group"} /\ NumQualifiers(q) > 0

\* C12: after any sequence of qualifier clauses on one observation or group,
\* repeat is the count of the last REPEATS clause, within the number of the
\* last WITHIN clause, and start and stop the first and second timestamp of
\* the last START...STOP clause; a field no clause sets stays absent.
C12_LastWriterWins ==
    Done("pattern") =>
        \A q \in SubPairs(input) :
            (Qualified(q) /\ parse_pair(q).ok) => LastWriterWins(q, parse_pair(q).val)

\* what holds of the code: repeat and within are last-writer-wins, start is
\* set by the first timestamp of the first START clause and never again, stop
\* by the last timestamp seen
FirstClause(q, rule) ==
    LET cs == SelectSeq(WrittenClauses(q), LAMBDA c : c.rule = rule)
    IN IF Len(cs) = 0 THEN None ELSE Some(cs[1])

C12_StartIsFirstWriter ==
    Done("pattern") =>
        \A q \in SubPairs(input) :
            (Qualified(q) /\ parse_pair(q).ok) =>
                LET n == parse_pair(q).val
                IN /\ n.repeat = ClauseField(LastClause(q, "repeat"), 1, parse_u32)
                   /\ n.within = ClauseField(LastClause(q, "within"), 1, parse_f64)
                   /\ n.start = ClauseField(FirstClause(q, "interval"), 1, parse_timestamp)
                   /\ n.stop = ClauseField(LastClause(q, "interval"), 2, parse_timestamp)

---------------------------------------------------------------------------
(* C13 *)

IsOperand(q) == q.rule \in {"observation", "observation_group"}

\* the operand q written without the qualifiers that follow it
WithoutOwnQualifiers(q) ==
    [q EXCEPT !.inner = SelectSeq(q.inner, LAMBDA c : c.rule # "qualifier")]

\* how many operands of the tree rooted at p are followed by a qualifier
RECURSIVE QualifiedOperands(_)
RECURSIVE QualifiedOperandsFrom(_, _)
QualifiedOperandsFrom(p, i) ==
    IF i > Len(p.inner) THEN 0
    ELSE QualifiedOperands(p.inner[i]) + QualifiedOperandsFrom(p, i + 1)

QualifiedOperands(p) ==
    (IF Qualified(p) THEN 1 ELSE 0) + QualifiedOperandsFrom(p, 1)

\* how many QualifiedPattern nodes a built tree has
RECURSIVE Wrappers(_)
Wrappers(n) ==
    CASE n.node = "QualifiedPattern" -> 1 + Wrappers(n.pattern)
      [] n.node = "CompositePattern" -> Wrappers(n.pleft) + Wrappers(n.pright)
      [] OTHER -> 0

\* one operand: without qualifiers it builds its comparison tree or its
\* group's folded expression; with qualifiers it builds one wrapper whose
\* child is exactly what the operand builds without them
OneWrapper(q, r) ==
    IF Qualified(q)
    THEN /\ r.node = "QualifiedPattern"
         /\ Ok(r.pattern) = parse_pair(WithoutOwnQualifiers(q))
         /\ HasQualifierField(r)
    ELSE IF q.rule = "observation_group"
         THEN Ok(r) = parse_expression(q.inner[1])
         ELSE r.node \in {"Comparison", "CompositeComparison"}

\* the operands of a fold, left to right: the right children along its left spine
RECURSIVE FoldOperands(_, _)
FoldOperands(n, k) ==
    IF k = 1 THEN <<n>> ELSE Append(FoldOperands(n.pleft, k - 1), n.pright)

\* C13: the qualifiers that follow one observation or one parenthesized group
\* build exactly one QualifiedPattern, whose child is that observation's
\* comparison tree or that group's folded expression; the wrapper never
\* encloses a sibling or the surrounding expression: an expression's fold has
\* one operand per written operand, each built from that operand alone, and
\* an unqualified group is a single operand holding its folded expression.
C13_QualifierScope ==
    Done("pattern") =>
        /\ out.ok => Wrappers(out.val) = QualifiedOperands(input)
        /\ \A q \in SubPairs(input) :
              /\ (IsOperand(q) /\ parse_pair(q).ok) => OneWrapper(q, parse_pair(q).val)
              /\ (q.rule = "expression" /\ parse_expression(q).ok) =>
                    \A i \in 1..NumOperands(q) :
                        /\ FoldOperands(parse_expression(q).val, NumOperands(q))[i]
                              = OperandResult(q, i).val
                        /\ OneWrapper(q.inner[2 * i - 1],
                                      FoldOperands(parse_expression(q).val, NumOperands(q))[i])

\* [a] AND [e] REPEATS 5 TIMES builds CompositePattern(a, AND, QualifiedPattern(e, repeat = 5))
C13_Witness ==
    /\ Done("pattern") /\ out.ok
    /\ TopExpression.inner = <<ObsA, Tok("and"), ObsRepeat>>
    /\ out.val.node = "CompositePattern" /\ out.val.oop = "And"
    /\ out.val.pleft.node = "Comparison"
    /\ out.val.pright.node = "QualifiedPattern"
    /\ out.val.pright.repeat = Some(<<"5">>)
    /\ out.val.pright.pattern.node = "Comparison"
    /\ Wrappers(out.val) = 1

\* ([a] OR [e] REPEATS 5 TIMES) <clause> <clause> builds one wrapper around
\* the group's fold, and the inner qualifier stays on its own observation
C13_GroupWitness ==
    /\ Done("pattern") /\ out.ok /\ SingleOperand
    /\ TopExpression.inner[1].rule = "observation_group"
    /\ NumQualifiers(TopExpression.inner[1]) = 2
    /\ out.val.node = "QualifiedPattern"
    /\ IsSome(out.val.repeat) /\ IsSome(out.val.within)
    /\ out.val.pattern.node = "CompositePattern"
    /\ out.val.pattern.pright.node = "QualifiedPattern"
    /\ Wrappers(out.val) = 2

---------------------------------------------------------------------------
(* C14: the builder step by step.  The call stack is a sequence of frames  *)
(* [pair, next]: the pair a function was handed and the position of the    *)
(* child its loop takes next.  parse_pair and the function it dispatches to *)
(* share one frame.                                                         *)

\* the child at position i of p is handed to a recursive call
is_call(p, i) ==
    CASE p.rule = "pattern" -> p.inner[i].rule = "expression"
      [] p.rule = "expression" ->
           i % 2 = 1 /\ p.inner[i].rule \in {"pattern", "expression", "observation",
                                              "observation_group"}
      [] p.rule = "observation" -> p.inner[i].rule = "comparison"
      [] p.rule = "observation_group" -> p.inner[i].rule = "expression"
      [] p.rule = "comparison" -> p.inner[i].rule = "comparison"
      [] OTHER -> FALSE

\* the work a loop does itself on child i fails, and its ? returns the error
step_fails(p, i) ==
    CASE p.rule = "expression" ->
           \* an operator parse_obs_op rejects, or an operand parse_pair rejects
           IF i % 2 = 0 THEN ~parse_obs_op(p.inner[i]).ok ELSE TRUE
      [] p.rule \in {"observation", "observation_group"} /\ p.inner[i].rule = "qualifier" ->
           ~parse_qualifier(p.inner[i], DefaultQualifiers).ok
      [] OTHER -> FALSE

\* what a function returns when its loop is over and no ? has met an error:
\* a single comparison is built from its leaves, the others fail if the loop
\* has left nothing to return
fails_at_end(p) ==
    CASE p.rule = "comparison" ->
           IF IsComparisonGroup(p) THEN FALSE ELSE ~parse_comparison(p).ok
      [] p.rule = "expression" -> Len(p.inner) % 2 = 0
      [] p.rule = "pattern" -> \A i \in 1..Len(p.inner) : p.inner[i].rule # "expression"
      [] p.rule = "observation" -> \A i \in 1..Len(p.inner) : p.inner[i].rule # "comparison"
      [] p.rule = "observation_group" ->
           \A i \in 1..Len(p.inner) : p.inner[i].rule # "expression"
      [] OTHER -> TRUE

\* a variant whose loop looks at a qualifier without taking it
advance_peek(p, i) ==
    IF p.inner[i].rule = "qualifier" THEN i ELSE i + 1

\* the iterator after child i: find() in parse_pattern_rule stops at the
\* expression, every other loop takes the next child
advance(p, i) ==
    IF p.rule = "pattern" /\ p.inner[i].rule = "expression" THEN Len(p.inner) + 1 ELSE i + 1

\* parse_pattern has been called on the pattern pair: nested, qualified and
\* chained operands, well-formed and failing
InitCalls ==
    /\ kind = "calls"
    /\ input \in NestedPatterns \cup QualifiedPatterns
                 \cup {Pattern(Expression(ch)) :
                         ch \in Chains({ObsA, ObsBadInt, GroupAB}, {"followedby"}, MaxObs)}
    /\ out = [stack |-> <<[pair |-> input, next |-> 1]>>, deepest |-> 1, failed |-> FALSE]
    /\ pc = "running"

Top == out.stack[Len(out.stack)]

InLoop ==
    /\ pc = "running" /\ ~out.failed
    /\ Top.pair.rule = "comparison" => IsComparisonGroup(Top.pair)
    /\ Top.next <= Len(Top.pair.inner)

\* the loop of the running function hands its next child to a recursive call
Call ==
    /\ InLoop /\ is_call(Top.pair, Top.next)
    /\ out' = [out EXCEPT
                 !.stack = Append([@ EXCEPT ![Len(@)].next = advance(Top.pair, Top.next)],
                                  [pair |-> Top.pair.inner[Top.next], next |-> 1]),
                 !.deepest = Max({@, Len(out.stack) + 1})]
    /\ UNCHANGED <<kind, input, pc>>

\* the loop of the running function works on its next child itself
Consume ==
    /\ InLoop /\ ~is_call(Top.pair, Top.next)
    /\ out' = [out EXCEPT !.stack[Len(out.stack)].next = advance(Top.pair, Top.next),
                          !.failed = step_fails(Top.pair, Top.next)]
    /\ UNCHANGED <<kind, input, pc>>

\* the running function returns: its loop is over, a ? met an error, or it
\* is a single comparison, built without a loop over comparisons
Return ==
    /\ pc = "running" /\ ~InLoop
    /\ out' = [out EXCEPT !.stack = SubSeq(@, 1, Len(@) - 1),
                          !.failed = @ \/ fails_at_end(Top.pair)]
    /\ pc' = IF Len(out.stack) = 1 THEN "done" ELSE "running"
    /\ UNCHANGED <<kind, input>>

NextCalls == Call \/ Consume \/ Return

\* one synchronous call, run to completion
SpecCalls == InitCalls /\ [][NextCalls]_vars /\ WF_vars(NextCalls)

RECURSIVE Size(_)
RECURSIVE SizeFrom(_, _)
SizeFrom(p, i) == IF i > Len(p.inner) THEN 0 ELSE Size(p.inner[i]) + SizeFrom(p, i + 1)

Size(p) == 1 + SizeFrom(p, 1)

\* every call is made on a child of the caller's pair, a strictly smaller tree
CallsDescend ==
    \A i \in 1..(Len(out.stack) - 1) :
        /\ \E j \in 1..Len(out.stack[i].pair.inner) :
              out.stack[i + 1].pair = out.stack[i].pair.inner[j]
        /\ Size(out.stack[i + 1].pair) < Size(out.stack[i].pair)

\* pattern, expression, observation and comparison, two frames more for each
\* parenthesized group and one more for each parenthesized comparison
DepthBound == 4 + 2 * NestingDepth(input)

\* the loops stay within their children, and an error unwinds through
\* callers that fail too
LoopsAgree ==
    /\ \A i \in 1..Len(out.stack) :
          out.stack[i].next \in 1..(Len(out.stack[i].pair.inner) + 1)
    /\ (out.failed /\ Len(out.stack) > 0) =>
          ~(IF Top.pair.rule = "comparison" THEN parse_comparison(Top.pair)
            ELSE parse_pair(Top.pair)).ok

CallsInvariant ==
    pc = "running" =>
        /\ CallsDescend
        /\ Len(out.stack) <= DepthBound /\ out.deepest <= DepthBound
        /\ LoopsAgree

C14_ErrorWitness ==
    /\ pc = "done" /\ kind = "calls"
    /\ NestingDepth(input) = MaxNest
    /\ out.deepest = 4 + 2 * MaxNest
    /\ out.failed

---------------------------------------------------------------------------
(* C15 *)

\* the single comparisons written in the tree rooted at p, left to right
RECURSIVE WrittenLeaves(_)
RECURSIVE WrittenLeavesFrom(_, _)
WrittenLeavesFrom(p, i) ==
    IF i > Len(p.inner) THEN <<>>
    ELSE WrittenLeaves(p.inner[i]) \o WrittenLeavesFrom(p, i + 1)

WrittenLeaves(p) ==
    IF p.rule = "comparison" /\ ~IsComparisonGroup(p) THEN <<p>>
    ELSE WrittenLeavesFrom(p, 1)

\* the combinator tokens written in the tree rooted at p
RECURSIVE Combinators(_)
RECURSIVE CombinatorsFrom(_, _)
CombinatorsFrom(p, i) ==
    IF i > Len(p.inner) THEN 0 ELSE Combinators(p.inner[i]) + CombinatorsFrom(p, i + 1)

Combinators(p) ==
    (IF p.rule \in {"and", "or", "followedby"} THEN 1 ELSE 0) + CombinatorsFrom(p, 1)

\* the Comparison leaves of a built tree, left to right
RECURSIVE AstLeaves(_)
AstLeaves(n) ==
    CASE n.node = "CompositeComparison" -> AstLeaves(n.left) \o AstLeaves(n.right)
      [] n.node = "CompositePattern" -> AstLeaves(n.pleft) \o AstLeaves(n.pright)
      [] n.node = "QualifiedPattern" -> AstLeaves(n.pattern)
      [] OTHER -> <<n>>

\* the binary nodes of a built tree
RECURSIVE Composites(_)
Composites(n) ==
    CASE n.node = "CompositeComparison" -> 1 + Composites(n.left) + Composites(n.right)
      [] n.node = "CompositePattern" -> 1 + Composites(n.pleft) + Composites(n.pright)
      [] n.node = "QualifiedPattern" -> Composites(n.pattern)
      [] OTHER -> 0

\* C15: the Comparison leaves of a built tree, read left to right, are the
\* single comparisons written in the input, in the order written, none
\* dropped, repeated or moved; and the tree has one CompositeComparison or
\* CompositePattern node for each combinator token written.
C15_LeafPreservation ==
    (Done("pattern") /\ out.ok) =>
        /\ Len(AstLeaves(out.val)) = Len(WrittenLeaves(input))
        /\ \A i \in 1..Len(WrittenLeaves(input)) :
              Ok(AstLeaves(out.val)[i]) = parse_comparison(WrittenLeaves(input)[i])
        /\ Composites(out.val) = Combinators(input)

C15_Witness ==
    /\ Done("pattern") /\ out.ok
    /\ NumOperands(TopExpression) = 3
    /\ \E i \in 1..3 : TopExpression.inner[2 * i - 1].rule = "observation_group"
    /\ Len(AstLeaves(out.val)) >= 6
    /\ \E i, j \in 1..Len(AstLeaves(out.val)) :
          AstLeaves(out.val)[i] # AstLeaves(out.val)[j]
    /\ Composites(out.val) = Len(AstLeaves(out.val)) - 1

---------------------------------------------------------------------------
(* The specification: one input per behaviour, built by one action *)

InitString == kind = "string" /\ input \in Strings(MaxLen)
InitTime == kind = "time" /\ input \in TimeTexts
InitPath == kind = "path" /\ input \in PathPairs
InitPattern == kind = "pattern" /\ input \in PatternPairs

Init ==
    /\ pc = "ready"
    /\ out = <<>>
    /\ (InitString \/ InitTime \/ InitPath \/ InitPattern)

UnescapeString ==
    /\ pc = "ready" /\ kind = "string"
    /\ out' = unescape_string(input)
    /\ pc' = "done"
    /\ UNCHANGED <<kind, input>>

ParseTimestamp ==
    /\ pc = "ready" /\ kind = "time"
    /\ out' = [res |-> parse_timestamp(input), tried |-> timestamp_attempts(input).tried]
    /\ pc' = "done"
    /\ UNCHANGED <<kind, input>>

ParseObjectPath ==
    /\ pc = "ready" /\ kind = "path"
    /\ out' = parse_object_path(input)
    /\ pc' = "done"
    /\ UNCHANGED <<kind, input>>

ParsePattern ==
    /\ pc = "ready" /\ kind = "pattern"
    /\ out' = parse_pattern(input)
    /\ pc' = "done"
    /\ UNCHANGED <<kind, input>>

Next == UnescapeString \/ ParseTimestamp \/ ParseObjectPath \/ ParsePattern

Spec == Init /\ [][Next]_vars

\* the same builder, also given comparison productions without a right-hand side
InitBare == kind = "pattern" /\ input \in BarePatterns

InitProductions ==
    /\ pc = "ready"
    /\ out = <<>>
    /\ (InitString \/ InitTime \/ InitPath \/ InitPattern \/ InitBare)

SpecProductions == InitProductions /\ [][Next]_vars

====
